---- MODULE Spec2Model ----
(***************************************************************************)
(* A model of the grouped splitter (src/src/utils.py), the dataset         *)
(* assembler (src/src/tf_utils/numpy_input.py) and the train command       *)
(* (src/learnhtml/cli/script.py) of learnhtml.                             *)
(***************************************************************************)
EXTENDS Integers, Sequences, FiniteSets, TLC

(***************************************************************************)
(* Bounds of the model.                                                    *)
(***************************************************************************)
MaxRows == 3        \* rows of a generated group-key array
MaxParts == 3       \* entries of a generated proportions list
RngMod == 6         \* states of the abstracted global generator
MaxFolds == 2        \* largest fold count and fold total
MaxParams == 2       \* largest number of -p/--param options

(***************************************************************************)
(* float64 arithmetic, as numpy performs it on np.cumsum([0] + proportions)*)
(* * unique_keys.size.  A non-negative real below LimbBase is held in      *)
(* fixed point as Limbs limbs of LimbBits bits, limb 1 the integer part.   *)
(* Every double the model meets (at least 2^-7, below 2^15) is exactly     *)
(* such a fixed-point number; Round53 is round-to-nearest-even to a        *)
(* 53-bit significand.                                                     *)
(***************************************************************************)
LimbBits == 15
Limbs == 5
Significand == 53
LimbBase == 2 ^ LimbBits

FxZero == [j \in 1..Limbs |-> 0]

\* Exact sum of two fixed-point numbers (carry propagated from the last limb).
RECURSIVE FxCarryAdd(_, _, _, _)
FxCarryAdd(a, b, j, carry) ==
    IF j = 0 THEN << >>
    ELSE LET s == a[j] + b[j] + carry
         IN  Append(FxCarryAdd(a, b, j - 1, s \div LimbBase), s % LimbBase)

FxAdd(a, b) == FxCarryAdd(a, b, Limbs, 0)

\* Exact product of a fixed-point number and a small natural number.
RECURSIVE FxCarryMul(_, _, _, _)
FxCarryMul(a, n, j, carry) ==
    IF j = 0 THEN << >>
    ELSE LET s == a[j] * n + carry
         IN  Append(FxCarryMul(a, n, j - 1, s \div LimbBase), s % LimbBase)

FxMul(a, n) == FxCarryMul(a, n, Limbs, 0)

\* Number of bits of a limb value x > 0.
BitLen(x) == CHOOSE b \in 1..LimbBits : 2 ^ (b - 1) <= x /\ x < 2 ^ b

\* Round a fixed-point number (plus a sticky flag for what lies below its last
\* limb) to the nearest double, ties to even.
Round53(a, sticky) ==
    IF \A j \in 1..Limbs : a[j] = 0 THEN FxZero
    ELSE
    LET lead  == CHOOSE j \in 1..Limbs : a[j] # 0 /\ \A i \in 1..(j - 1) : a[i] = 0
        rest  == Significand - BitLen(a[lead])   \* kept bits after the leading limb
        k     == lead + (rest \div LimbBits) + 1 \* limb that holds the cut
        t     == rest % LimbBits                 \* its kept (top) bits
    IN  IF k > Limbs THEN a
        ELSE
        LET unit   == 2 ^ (LimbBits - t)
            half   == unit \div 2
            low    == a[k] % unit
            below  == sticky \/ (low % half # 0) \/ \E j \in (k + 1)..Limbs : a[j] # 0
            lastb  == IF t > 0 THEN (a[k] \div unit) % 2 ELSE a[k - 1] % 2
            up     == low >= half /\ (below \/ lastb = 1)
            trunc  == [j \in 1..Limbs |-> IF j < k THEN a[j]
                                          ELSE IF j = k THEN a[k] - low ELSE 0]
            ulp    == [j \in 1..Limbs |-> IF t > 0 THEN (IF j = k THEN unit ELSE 0)
                                          ELSE (IF j = k - 1 THEN 1 ELSE 0)]
        IN  IF up THEN FxAdd(trunc, ulp) ELSE trunc

\* The double nearest to num/den: how a decimal literal such as 0.15 is read.
RECURSIVE FxDigits(_, _, _)
FxDigits(r, den, j) ==
    IF j = 0 THEN << >>
    ELSE << (r * LimbBase) \div den >> \o FxDigits((r * LimbBase) % den, den, j - 1)

RECURSIVE FxRemainder(_, _, _)
FxRemainder(r, den, j) ==
    IF j = 0 THEN r ELSE FxRemainder((r * LimbBase) % den, den, j - 1)

FloatOf(num, den) ==
    Round53(<< num \div den >> \o FxDigits(num % den, den, Limbs - 1),
            FxRemainder(num % den, den, Limbs - 1) # 0)

FloatAdd(x, y) == Round53(FxAdd(x, y), FALSE)
FloatMul(x, n) == Round53(FxMul(x, n), FALSE)
\* Rounding up instead of down.
Ceil(x) == IF \E j \in 2..Limbs : x[j] # 0 THEN x[1] + 1 ELSE x[1]
\* np.floor(...).astype(int)
Floor(x) == x[1]

(***************************************************************************)
(* State.                                                                  *)
(***************************************************************************)
VARIABLES
    \* the grouped splitter, utils.get_random_split
    key,            \* the caller's group-key array, one key per row
    proportions,    \* the proportions list, in hundredths (70 is 0.7)
    rng,            \* state of numpy's global generator
    seed,           \* << s >>, s the last value given to np.random.seed, or NoSeed
    unique_keys,    \* the shuffled unique keys of the last call
    split_points,   \* the split points of the last call
    masks,          \* the masks returned by the last call
    returned,       \* TRUE once get_random_split has returned
    seed_at_call,   \* the value of seed when the last call was made
    \* the dataset assembler, numpy_input.get_numpy_dataset
    ddf,            \* the table read from the csv files, one record per row
    data_cols,      \* the data_cols argument: None, or << l >> for the list l of columns
    categorize_id,  \* the categorize_id argument
    sparse_matrix,  \* the sparse_matrix argument
    X_cols,         \* the columns of X_ddf
    sorted_categ,   \* the result of np.argsort(categ_id_arr)
    dataset,        \* the returned dict ('id', 'X', 'y')
    ds_pc,          \* "ready", "returned" or "raised"
    \* numpy_input.get_split_dataset
    sd_proportions, \* the proportions argument: None, or << p >> for the list p
    big_X,          \* the returned feature rows
    big_y,          \* the returned labels
    out_slices,     \* the returned split slices
    sd_pc,          \* "ready", "returned" or "raised"
    \* the train command, script.train
    output,         \* --score-files: None or << pattern >>
    model_file,     \* --model-file: None or << file >>
    external_folds, \* --external-folds: << n_folds, total_folds >>
    internal_folds, \* --internal-folds: << n_folds, total_folds >>
    random_seed,    \* --random-seed
    shuffle_flag,   \* --shuffle/--no-shuffle
    row_order,      \* the row order of the loaded dataset, << >> before it is loaded
    scores,         \* the result of nested_cv, << >> before it returns
    trained_est,    \* the result of cv_train, << >> before it returns
    files,          \* the files written so far
    events,         \* the steps taken so far, in order
    tr_pc,          \* the position in train
    param_file,     \* --param-file: None or << f >>, f the file's mapping of names to JSON texts
    cli_params,     \* the -p/--param options, in command-line order: << name, JSON text >>
    params,         \* the params dict of train
    blocks_only,    \* the value popped from params
    computed_params,     \* the mapping returned by get_param_grid
    param_distributions  \* the mapping after formatting, lines 160-162

split_vars == << key, proportions, rng, seed, unique_keys, split_points, masks,
                returned, seed_at_call >>

splitds_vars == << sd_proportions, big_X, big_y, out_slices, sd_pc >>

dataset_vars == << ddf, data_cols, categorize_id, sparse_matrix, X_cols, sorted_categ,
                  dataset, ds_pc, splitds_vars >>

train_vars == << output, model_file, external_folds, internal_folds, random_seed,
                shuffle_flag, row_order, scores, trained_est, files, events, tr_pc,
                param_file, cli_params, params, blocks_only, computed_params,
                param_distributions >>

vars == << split_vars, dataset_vars, train_vars >>

(***************************************************************************)
(* Inputs of the splitter.                                                 *)
(***************************************************************************)
NoSeed == << >>
None == << >>                         \* an argument left unspecified
Seeds == {42, 7}                      \* 42 is --random-seed's default
Keys == {1, 2}                        \* document identifiers
Percents == {10, 20, 70}              \* 0.1, 0.2, 0.7

\* Ten documents, the first and the last with two rows each.
TenDocs == << 1, 1, 2, 3, 4, 5, 6, 7, 8, 9, 10, 10 >>
DefaultProportions == << 70, 15, 15 >>

KeyArrays == UNION {[1..n -> Keys] : n \in 1..MaxRows} \cup {TenDocs}
ProportionLists == UNION {[1..k -> Percents] : k \in 1..MaxParts} \cup {DefaultProportions}

RECURSIVE SumSeq(_)
SumSeq(s) == IF s = << >> THEN 0 ELSE Head(s) + SumSeq(Tail(s))

Range(s) == {s[i] : i \in DOMAIN s}

(***************************************************************************)
(* The state of a component that a specification leaves alone.             *)
(***************************************************************************)
\* A Python value of a parameter: its type, its text when it is a scalar, its
\* items when it is a list.
Scalar(kind, atom) == [kind |-> kind, atom |-> atom, items |-> << >>]
PyList(items) == [kind |-> "list", atom |-> "", items |-> items]
JSONDecodeError == Scalar("error", "")
Unset == Scalar("unset", "")
PyTrue == Scalar("bool", "True")

SplitIdle ==
    /\ key = << >>
    /\ proportions = << >>
    /\ rng = 0
    /\ seed = NoSeed
    /\ unique_keys = << >>
    /\ split_points = << >>
    /\ masks = << >>
    /\ returned = FALSE
    /\ seed_at_call = NoSeed

SplitDatasetIdle ==
    /\ sd_proportions = None
    /\ big_X = << >>
    /\ big_y = << >>
    /\ out_slices = << >>
    /\ sd_pc = "idle"

DatasetIdle ==
    /\ ddf = << >>
    /\ data_cols = None
    /\ categorize_id = TRUE
    /\ sparse_matrix = TRUE
    /\ X_cols = << >>
    /\ sorted_categ = << >>
    /\ dataset = << >>
    /\ ds_pc = "idle"
    /\ SplitDatasetIdle

TrainIdle ==
    /\ output = None
    /\ model_file = None
    /\ external_folds = << 1, 1 >>
    /\ internal_folds = << 1, 1 >>
    /\ random_seed = 0
    /\ shuffle_flag = FALSE
    /\ row_order = << >>
    /\ scores = << >>
    /\ trained_est = << >>
    /\ files = {}
    /\ events = << >>
    /\ tr_pc = "idle"
    /\ param_file = None
    /\ cli_params = << >>
    /\ params = << >>
    /\ blocks_only = Unset
    /\ computed_params = << >>
    /\ param_distributions = << >>

(***************************************************************************)
(* numpy's global generator, abstracted to a generator that steps through  *)
(* RngMod states; a draw is a function of the state.                       *)
(***************************************************************************)
SeedState(s) == s % RngMod                  \* np.random.seed(s)
RngNext(s) == (s + 1) % RngMod              \* the state after one draw
RngBelow(s, i) == (s % i) + 1               \* the draw, in 1..i

\* np.random.shuffle(x): for i = n down to 2, swap x[i] with x[j], j drawn from 1..i.
RECURSIVE shuffle(_, _, _)
shuffle(x, s, i) ==
    IF i < 2 THEN [arr |-> x, rng |-> s]
    ELSE LET j == RngBelow(s, i)
             y == [x EXCEPT ![i] = x[j], ![j] = x[i]]
         IN  shuffle(y, RngNext(s), i - 1)

\* np.unique(key): the distinct keys in ascending order.
RECURSIVE SortedSeq(_)
SortedSeq(S) ==
    IF S = {} THEN << >>
    ELSE LET m == CHOOSE x \in S : \A y \in S : x <= y
         IN  << m >> \o SortedSeq(S \ {m})

unique_not_deduplicated(k) == k
unique(k) == SortedSeq(Range(k))

\* np.cumsum([0] + proportions)[i], accumulated left to right in float64.
RECURSIVE cumsum(_, _)
cumsum(p, i) ==
    IF i = 0 THEN FxZero ELSE FloatAdd(cumsum(p, i - 1), FloatOf(p[i], 100))

\* np.floor(np.cumsum([0] + proportions) * size).astype(int)
compute_split_points(p, size) ==
    [i \in 1..(Len(p) + 1) |-> Floor(FloatMul(cumsum(p, i - 1), size))]

\* The split points of every proportions list and size the model meets.
\* (Merged with the empty function so that the table is built once, not per use.)
SplitSizes == (0..MaxRows) \cup {Cardinality(Range(TenDocs)), Len(TenDocs)}
SplitPointsMemo ==
    [pn \in ProportionLists \X SplitSizes |-> compute_split_points(pn[1], pn[2])]
        @@ << >>

\* [slice(i, j) for i, j in zip(split_points[:-1], split_points[1:])]
split_slices_short(points) ==
    [i \in 1..(Len(points) - 2) |-> << points[i], points[i + 1] >>]
split_slices(points) ==
    [i \in 1..(Len(points) - 1) |-> << points[i], points[i + 1] >>]

\* x[slice(i, j)] as a set: positions i..j-1 counted from 0, clipped to x.
Sliced(x, sl) == {x[q] : q \in {q \in 1..Len(x) : sl[1] < q /\ q <= sl[2]}}

\* np.isin(key, S)
isin(k, S) == [r \in 1..Len(k) |-> k[r] \in S]

\* The array that the name unique_keys is bound to on line 68 and that line 69
\* shuffles in place: the new array allocated by np.unique, not the caller's.
shuffled_array_is_key == "key"
shuffled_array == "unique_keys"

\* get_random_split(key, proportions), run with the global generator in state s.
\* The two arrays live in a heap, so that the in-place shuffle changes the array
\* it is given and every name bound to it.
get_random_split(k, p, s) ==
    LET heap   == [key |-> k, unique_keys |-> unique(k)]
        u      == heap[shuffled_array]
        sh     == shuffle(u, s, Len(u))
        after  == [heap EXCEPT ![shuffled_array] = sh.arr]
        points == SplitPointsMemo[<< p, Len(u) >>]
        slices == split_slices(points)
    IN  [key          |-> after.key,
         unique_keys  |-> sh.arr,
         split_points |-> points,
         masks        |-> [i \in 1..Len(slices) |->
                              isin(after.key, Sliced(sh.arr, slices[i]))],
         rng          |-> sh.rng]

(***************************************************************************)
(* The dataset assembler: get_numpy_dataset.                               *)
(***************************************************************************)
Columns == << "url", "path", "tag_count", "text_len", "content_label" >>
StringColumns == {"url", "path"}
Urls == {1, 2}                         \* two documents, ordered as their urls are
Labels == {0, 1}

\* The tables of n rows: row i has locator i and its own feature values.
TablesOf(n) ==
    {[i \in 1..n |-> [url |-> u[i], path |-> i, tag_count |-> 10 + i, text_len |-> 0,
                      content_label |-> y[i]]] : u \in [1..n -> Urls], y \in [1..n -> Labels]}
Tables == UNION {TablesOf(n) : n \in 1..MaxRows}

\* data_cols: unspecified, one column, or two different columns of the table.
DataColsChoices ==
    {None} \cup {<< << c >> >> : c \in Range(Columns)}
           \cup {<< cd >> : cd \in {x \in Range(Columns) \X Range(Columns) : x[1] # x[2]}}

\* ddf.drop(labels, axis=1): the remaining columns, in the table's order.
drop(cols, labels) == SelectSeq(cols, LAMBDA c : c \notin labels)

\* The columns of X_ddf after lines 23-25.
feature_columns(cols) ==
    IF cols # None THEN cols[1]
    ELSE drop(Columns, {"url", "path", "content_label"})

\* ddf[cols].values: one tuple per row.
values(t, cols) == [i \in 1..Len(t) |-> [c \in 1..Len(cols) |-> t[i][cols[c]]]]
column(t, c) == [i \in 1..Len(t) |-> t[i][c]]

\* np.unique(id_arr, return_inverse=True)[1]: the position (from 0) of each row's
\* url among the sorted distinct urls.
return_inverse(ids) ==
    [i \in 1..Len(ids) |-> Cardinality({u \in Range(ids) : u < ids[i]})]

Perms(n) == {f \in [1..n -> 1..n] : \A i, j \in 1..n : i # j => f[i] # f[j]}

\* np.argsort(categ), default kind (quicksort, not stable): any order of the rows
\* in which the categories do not decrease.
argsort(categ) ==
    {f \in Perms(Len(categ)) : \A i, j \in 1..Len(categ) : i < j => categ[f[i]] <= categ[f[j]]}

\* arr[index]
take(arr, index) == [i \in 1..Len(index) |-> arr[index[i]]]

\* The dict returned by lines 37-44.
numpy_dataset_labels_unsorted(id_arr, X_arr, y_arr, categorize, categ, order) ==
    IF ~categorize THEN [id |-> id_arr, X |-> X_arr, y |-> y_arr]
    ELSE [id |-> take(categ, order), X |-> take(X_arr, order), y |-> y_arr]
numpy_dataset(id_arr, X_arr, y_arr, categorize, categ, order) ==
    IF ~categorize THEN [id |-> id_arr, X |-> X_arr, y |-> y_arr]
    ELSE [id |-> take(categ, order), X |-> take(X_arr, order), y |-> take(y_arr, order)]

DatasetInit ==
    /\ SplitIdle
    /\ TrainIdle
    /\ ddf \in Tables
    /\ data_cols \in DataColsChoices
    /\ categorize_id \in BOOLEAN
    /\ sparse_matrix \in BOOLEAN
    /\ X_cols = << >>
    /\ sorted_categ = << >>
    /\ dataset = << >>
    /\ ds_pc = "ready"
    /\ SplitDatasetIdle

\* Line 33: a sparse float32 matrix cannot be made of a column of strings.
GetNumpyDatasetRaises ==
    /\ ds_pc = "ready"
    /\ sparse_matrix
    /\ Range(feature_columns(data_cols)) \cap StringColumns # {}
    /\ X_cols' = feature_columns(data_cols)
    /\ ds_pc' = "raised"
    /\ UNCHANGED << ddf, data_cols, categorize_id, sparse_matrix, sorted_categ, dataset >>
    /\ UNCHANGED << splitds_vars, split_vars, train_vars >>

\* get_numpy_dataset(csv_pattern, data_cols, categorize_id, sparse_matrix), lines 19-44.
GetNumpyDataset ==
    /\ ds_pc = "ready"
    /\ ~(sparse_matrix /\ Range(feature_columns(data_cols)) \cap StringColumns # {})
    /\ LET id_arr == values(ddf, << "url", "path" >>)
           cols   == feature_columns(data_cols)
           X_arr  == values(ddf, cols)
           y_arr  == column(ddf, "content_label")
           categ  == return_inverse(column(ddf, "url"))
       IN  /\ X_cols' = cols
           /\ \E order \in (IF categorize_id THEN argsort(categ) ELSE {<< >>}) :
                 /\ sorted_categ' = order
                 /\ dataset' = numpy_dataset(id_arr, X_arr, y_arr, categorize_id, categ, order)
    /\ ds_pc' = "returned"
    /\ UNCHANGED << ddf, data_cols, categorize_id, sparse_matrix >>
    /\ UNCHANGED << splitds_vars, split_vars, train_vars >>

DatasetNext ==
    \/ GetNumpyDatasetRaises
    \/ GetNumpyDataset

SpecDataset == DatasetInit /\ [][DatasetNext]_vars

(***************************************************************************)
(* get_split_dataset(csv_pattern, data_cols, proportions), lines 71-93.    *)
(***************************************************************************)
SplitDatasetProportions == {None, << DefaultProportions >>, << << 20, 70, 10 >> >>}

\* The number of dimensions of dataset['id']: the one-dimensional category
\* codes of lines 40-44 when categorize_id is set, else the (url, path) rows.
id_ndim(categorize) == IF categorize THEN 1 ELSE 2

\* arr[mask]: the rows of arr selected by a boolean mask, in order.
masked(arr, mask) == take(arr, SortedSeq({r \in 1..Len(arr) : mask[r]}))
mask_sum(mask) == Cardinality({r \in 1..Len(mask) : mask[r]})

\* np.cumsum([0] + [mask.sum() for mask in masks])
RECURSIVE mask_cumsum(_, _)
mask_cumsum(ms, i) == IF i = 0 THEN 0 ELSE mask_cumsum(ms, i - 1) + mask_sum(ms[i])
mask_split_points(ms) == [i \in 1..(Len(ms) + 1) |-> mask_cumsum(ms, i - 1)]

\* Lines 89-91: the rows of each mask written to the slice of that mask.
RECURSIVE fill(_, _, _)
fill(arr, ms, i) == IF i = 0 THEN << >> ELSE fill(arr, ms, i - 1) \o masked(arr, ms[i])

SplitDatasetInit ==
    /\ SplitIdle
    /\ TrainIdle
    /\ ddf \in Tables
    /\ data_cols \in DataColsChoices
    /\ categorize_id = TRUE
    /\ sparse_matrix = TRUE
    /\ X_cols = << >>
    /\ sorted_categ = << >>
    /\ dataset = << >>
    /\ ds_pc = "ready"
    /\ sd_proportions \in SplitDatasetProportions
    /\ big_X = << >>
    /\ big_y = << >>
    /\ out_slices = << >>
    /\ sd_pc = "ready"

\* Line 78 raises: get_numpy_dataset cannot build the sparse matrix.
GetSplitDatasetLoadRaises ==
    /\ sd_pc = "ready"
    /\ ds_pc = "ready"
    /\ sparse_matrix
    /\ Range(feature_columns(data_cols)) \cap StringColumns # {}
    /\ X_cols' = feature_columns(data_cols)
    /\ ds_pc' = "raised"
    /\ sd_pc' = "raised"
    /\ UNCHANGED << ddf, data_cols, categorize_id, sparse_matrix, sorted_categ, dataset >>
    /\ UNCHANGED << sd_proportions, big_X, big_y, out_slices >>
    /\ UNCHANGED << split_vars, train_vars >>

\* The whole of get_split_dataset when line 78 returns a dataset.
GetSplitDataset ==
    /\ sd_pc = "ready"
    /\ ds_pc = "ready"
    /\ ~(sparse_matrix /\ Range(feature_columns(data_cols)) \cap StringColumns # {})
    /\ LET p      == IF sd_proportions = None THEN DefaultProportions ELSE sd_proportions[1]
           id_arr == values(ddf, << "url", "path" >>)
           cols   == feature_columns(data_cols)
           X_arr  == values(ddf, cols)
           y_arr  == column(ddf, "content_label")
           categ  == return_inverse(column(ddf, "url"))
       IN  /\ X_cols' = cols
           /\ \E order \in argsort(categ) :
                 LET ds == numpy_dataset(id_arr, X_arr, y_arr, categorize_id, categ, order)
                 IN  /\ sorted_categ' = order
                     /\ dataset' = ds
                     /\ ds_pc' = "returned"
                     /\ IF id_ndim(categorize_id) < 2
                        THEN \* line 79: dataset['id'][:, 0] raises IndexError
                             /\ sd_pc' = "raised"
                             /\ UNCHANGED << big_X, big_y, out_slices, split_vars >>
                        ELSE LET k      == [r \in 1..Len(ds.id) |-> ds.id[r][1]]
                                 res    == get_random_split(k, p, rng)
                                 points == mask_split_points(res.masks)
                             IN  /\ key' = res.key
                                 /\ proportions' = p
                                 /\ unique_keys' = res.unique_keys
                                 /\ split_points' = res.split_points
                                 /\ masks' = res.masks
                                 /\ rng' = res.rng
                                 /\ returned' = TRUE
                                 /\ seed_at_call' = seed
                                 /\ UNCHANGED seed
                                 /\ out_slices' = split_slices(points)
                                 /\ big_X' = fill(ds.X, res.masks, Len(res.masks))
                                 /\ big_y' = fill(ds.y, res.masks, Len(res.masks))
                                 /\ sd_pc' = "returned"
    /\ UNCHANGED << ddf, data_cols, categorize_id, sparse_matrix, sd_proportions >>
    /\ UNCHANGED train_vars

SplitDatasetNext ==
    \/ GetSplitDatasetLoadRaises
    \/ GetSplitDataset

SpecSplitDataset == SplitDatasetInit /\ [][SplitDatasetNext]_vars

(***************************************************************************)
(* The train command.  get_ordered_dataset, nested_cv and cv_train belong  *)
(* to learnhtml.model_selection; they are modelled from their description: *)
(* a shuffle of the rows and the two searches draw from numpy's global     *)
(* generator, and a fold specification with count > total is fatal.        *)
(***************************************************************************)
FoldSpecs == (1..MaxFolds) \X (1..MaxFolds)
DatasetRows == << 1, 2, 3 >>           \* the rows of the dataset file, in file order
InvalidFolds(f) == f[1] > f[2]

\* get_ordered_dataset(dataset, blocks_only, shuffle): the row order it returns
\* and the generator's state afterwards.
get_ordered_dataset(do_shuffle, s) ==
    IF do_shuffle THEN shuffle(DatasetRows, s, Len(DatasetRows))
    ELSE [arr |-> DatasetRows, rng |-> s]

\* nested_cv(...): raises on an invalid fold specification, else returns scores
\* that depend on the data as ordered and on the generator's state.
nested_cv(order, internal, external, s) ==
    IF InvalidFolds(internal) \/ InvalidFolds(external) THEN [raised |-> TRUE]
    ELSE [raised |-> FALSE, scores |-> << order, s >>, rng |-> RngNext(s)]

\* cv_train(...): raises on an invalid fold specification, else returns an
\* estimator that depends on the data as ordered and on the generator's state.
cv_train(order, folds, s) ==
    IF InvalidFolds(folds) THEN [raised |-> TRUE]
    ELSE [raised |-> FALSE, trained_est |-> << order, s >>, rng |-> RngNext(s)]

\* Where train goes after the parameters are formatted (lines 165 and 183).
AfterGrid_model_inside_scores == IF output # None THEN "nested_cv" ELSE "done"
AfterGrid == IF output # None THEN "nested_cv" ELSE IF model_file # None THEN "cv_train" ELSE "done"
AfterScores == IF model_file # None THEN "cv_train" ELSE "done"

(***************************************************************************)
(* Parameter texts.  A JSON text is the sequence of its lexical tokens.    *)
(***************************************************************************)
NumberTokens == {"1", "2"}
StringTokens == {"\"rbf\""}
Unquoted == [t \in StringTokens |-> "rbf"]

\* json.loads of a text of one token.
json_scalar(tok) ==
    IF tok \in NumberTokens THEN Scalar("int", tok)
    ELSE IF tok \in StringTokens THEN Scalar("str", Unquoted[tok])
    ELSE IF tok = "true" THEN PyTrue
    ELSE IF tok = "false" THEN Scalar("bool", "False")
    ELSE IF tok = "null" THEN Scalar("NoneType", "None")
    ELSE JSONDecodeError

\* json.loads(val): a scalar, or a list of scalars between brackets and
\* separated by commas; anything else is not JSON.
json_loads(text) ==
    IF Len(text) = 1 THEN json_scalar(text[1])
    ELSE IF Len(text) >= 2 /\ text[1] = "[" /\ text[Len(text)] = "]"
    THEN LET inner == SubSeq(text, 2, Len(text) - 1)
             n     == (Len(inner) + 1) \div 2
             items == [i \in 1..n |-> json_scalar(inner[2 * i - 1])]
         IN  IF Len(inner) = 0 THEN PyList(<< >>)
             ELSE IF /\ Len(inner) % 2 = 1
                     /\ \A i \in 1..Len(inner) : i % 2 = 0 => inner[i] = ","
                     /\ \A i \in 1..n : items[i].kind # "error"
             THEN PyList(items)
             ELSE JSONDecodeError
    ELSE JSONDecodeError

\* json.load(param_file): the file holds one JSON object.
json_load(f) == [k \in DOMAIN f |-> json_loads(f[k])]

\* d[k] = v on a dict.
set_item_if_absent(d, k, v) ==
    [x \in DOMAIN d \cup {k} |-> IF x \in DOMAIN d THEN d[x] ELSE v]
set_item(d, k, v) ==
    [x \in DOMAIN d \cup {k} |-> IF x = k THEN v ELSE d[x]]

\* d without the key k, as d.pop(k, default) leaves it.
without(d, k) == [x \in DOMAIN d \ {k} |-> d[x]]
\* The value d.pop(k, default) returns.
pop(d, k, default) == IF k \in DOMAIN d THEN d[k] ELSE default

\* Lines 129-133: the first i options applied to the dict ps.
RECURSIVE apply_cli_params(_, _, _)
apply_cli_params(ps, cli, i) ==
    IF i = 0 THEN ps
    ELSE set_item(apply_cli_params(ps, cli, i - 1), cli[i][1], json_loads(cli[i][2]))

\* Line 161: a list or a frozen scipy distribution is kept, any other value
\* is wrapped in a list.
format_param_lists_only(v) == IF v.kind = "list" THEN v ELSE PyList(<< v >>)
format_param(v) == IF v.kind = "list" \/ v.kind = "rv_frozen" THEN v ELSE PyList(<< v >>)

\* get_param_grid(**params): the parameter distributions it returns are the
\* given parameters and, for the parameters not given, the estimator's
\* defaults, which may be frozen distributions.
ParamDefaults == [gamma |-> Scalar("rv_frozen", "expon"), kernel |-> Scalar("str", "rbf")]
get_param_grid(ps) ==
    [estimator |-> "estimator",
     param_distributions |->
         [k \in DOMAIN ParamDefaults \cup DOMAIN ps |->
             IF k \in DOMAIN ps THEN ps[k] ELSE ParamDefaults[k]]]

ParamNames == {"blocks_only", "C"}
JsonTexts ==
    {<< "1" >>, << "false" >>, << "\"rbf\"" >>, << "[", "1", ",", "2", "]" >>, << "rbf" >>}
ParamFiles ==
    {None, << [C |-> << "1" >>] >>,
     << [C |-> << "[", "1", "]" >>, blocks_only |-> << "false" >>] >>}
CliParams == UNION {[1..n -> ParamNames \X JsonTexts] : n \in 0..MaxParams}

TrainInit ==
    /\ key = << >>
    /\ proportions = << >>
    /\ rng \in 0..(RngMod - 1)          \* unseeded: taken from the system's entropy
    /\ seed = NoSeed
    /\ unique_keys = << >>
    /\ split_points = << >>
    /\ masks = << >>
    /\ returned = FALSE
    /\ seed_at_call = NoSeed
    /\ DatasetIdle
    /\ output \in {None, << "out-{suffix}" >>}
    /\ model_file \in {None, << "model.pkl" >>}
    /\ external_folds \in FoldSpecs
    /\ internal_folds \in FoldSpecs
    /\ random_seed \in Seeds
    /\ shuffle_flag \in BOOLEAN
    /\ row_order = << >>
    /\ scores = << >>
    /\ trained_est = << >>
    /\ files = {}
    /\ events = << >>
    /\ tr_pc = "params"
    /\ param_file = None
    /\ cli_params = << >>
    /\ params = << >>
    /\ blocks_only = Unset
    /\ computed_params = << >>
    /\ param_distributions = << >>

train_frame == << key, proportions, unique_keys, split_points, masks, returned, seed_at_call,
                 dataset_vars, output, model_file, external_folds, internal_folds,
                 random_seed, shuffle_flag, param_file, cli_params >>

\* Lines 124-137: the parameters are read and blocks_only is taken out.
TrainReadParams ==
    /\ tr_pc = "params"
    /\ LET from_file == IF param_file # None THEN json_load(param_file[1]) ELSE << >>
           merged    == apply_cli_params(from_file, cli_params, Len(cli_params))
       IN  IF \E i \in DOMAIN cli_params : json_loads(cli_params[i][2]) = JSONDecodeError
           THEN \* line 132 raises
                /\ tr_pc' = "raised"
                /\ UNCHANGED << params, blocks_only, events >>
           ELSE /\ blocks_only' = pop(merged, "blocks_only", PyTrue)
                /\ params' = without(merged, "blocks_only")
                /\ events' = Append(events, "params")
                /\ tr_pc' = "load"
    /\ UNCHANGED << train_frame, rng, seed, row_order, scores, trained_est, files >>
    /\ UNCHANGED << computed_params, param_distributions >>

\* Line 141: X, y, groups = get_ordered_dataset(dataset, blocks_only, shuffle).
TrainLoadDataset ==
    /\ tr_pc = "load"
    /\ LET got == get_ordered_dataset(shuffle_flag, rng)
       IN  /\ row_order' = got.arr
           /\ rng' = got.rng
    /\ events' = Append(events, IF shuffle_flag THEN "shuffle" ELSE "load")
    /\ tr_pc' = "seed"
    /\ UNCHANGED << train_frame, seed, scores, trained_est, files >>
    /\ UNCHANGED << params, blocks_only, computed_params, param_distributions >>

\* Line 150: np.random.seed(random_seed).
TrainSeed ==
    /\ tr_pc = "seed"
    /\ rng' = SeedState(random_seed)
    /\ seed' = << random_seed >>
    /\ events' = Append(events, "seed")
    /\ tr_pc' = "grid"
    /\ UNCHANGED << train_frame, row_order, scores, trained_est, files >>
    /\ UNCHANGED << params, blocks_only, computed_params, param_distributions >>

\* Lines 155-162: the estimator and its parameter distributions.
TrainGetParamGrid ==
    /\ tr_pc = "grid"
    /\ LET grid == get_param_grid(params).param_distributions
       IN  /\ computed_params' = grid
           /\ param_distributions' = [k \in DOMAIN grid |-> format_param(grid[k])]
    /\ events' = Append(events, "grid")
    /\ tr_pc' = AfterGrid
    /\ UNCHANGED << train_frame, rng, seed, row_order, scores, trained_est, files >>
    /\ UNCHANGED << params, blocks_only >>

\* Lines 168-171: nested_cv, reached only when --score-files is given.
TrainNestedCV ==
    /\ tr_pc = "nested_cv"
    /\ LET res == nested_cv(row_order, internal_folds, external_folds, rng)
       IN  IF res.raised
           THEN /\ tr_pc' = "raised"
                /\ UNCHANGED << rng, scores, events >>
           ELSE /\ scores' = res.scores
                /\ rng' = res.rng
                /\ events' = Append(events, "nested_cv")
                /\ tr_pc' = "save_scores"
    /\ UNCHANGED << train_frame, seed, row_order, trained_est, files >>
    /\ UNCHANGED << params, blocks_only, computed_params, param_distributions >>

\* Lines 175-179: the score file and the fold-report file are written.
TrainSaveScores ==
    /\ tr_pc = "save_scores"
    /\ files' = files \cup {"scores.csv", "cv.csv"}
    /\ events' = Append(events, "save_scores")
    /\ tr_pc' = AfterScores
    /\ UNCHANGED << train_frame, rng, seed, row_order, scores, trained_est >>
    /\ UNCHANGED << params, blocks_only, computed_params, param_distributions >>

\* Lines 185-188: cv_train, reached only when --model-file is given; it is given
\* the external folds only.
TrainCVTrain ==
    /\ tr_pc = "cv_train"
    /\ LET res == cv_train(row_order, external_folds, rng)
       IN  IF res.raised
           THEN /\ tr_pc' = "raised"
                /\ UNCHANGED << rng, trained_est, events >>
           ELSE /\ trained_est' = res.trained_est
                /\ rng' = res.rng
                /\ events' = Append(events, "cv_train")
                /\ tr_pc' = "save_model"
    /\ UNCHANGED << train_frame, seed, row_order, scores, files >>
    /\ UNCHANGED << params, blocks_only, computed_params, param_distributions >>

\* Lines 191-192: the model is pickled to the model file.
TrainSaveModel ==
    /\ tr_pc = "save_model"
    /\ files' = files \cup {"model.pkl"}
    /\ events' = Append(events, "save_model")
    /\ tr_pc' = "done"
    /\ UNCHANGED << train_frame, rng, seed, row_order, scores, trained_est >>
    /\ UNCHANGED << params, blocks_only, computed_params, param_distributions >>

TrainNext ==
    \/ TrainReadParams
    \/ TrainLoadDataset
    \/ TrainSeed
    \/ TrainGetParamGrid
    \/ TrainNestedCV
    \/ TrainSaveScores
    \/ TrainCVTrain
    \/ TrainSaveModel

SpecTrain == TrainInit /\ [][TrainNext]_vars

\* train over its parameter options, with valid folds.
TrainParamsInit ==
    /\ SplitIdle
    /\ DatasetIdle
    /\ output \in {None, << "out-{suffix}" >>}
    /\ model_file \in {None, << "model.pkl" >>}
    /\ external_folds = << 1, 1 >>
    /\ internal_folds = << 1, 1 >>
    /\ random_seed = 42
    /\ shuffle_flag = TRUE
    /\ row_order = << >>
    /\ scores = << >>
    /\ trained_est = << >>
    /\ files = {}
    /\ events = << >>
    /\ tr_pc = "params"
    /\ param_file \in ParamFiles
    /\ cli_params \in CliParams
    /\ params = << >>
    /\ blocks_only = Unset
    /\ computed_params = << >>
    /\ param_distributions = << >>

SpecTrainParams == TrainParamsInit /\ [][TrainNext]_vars

(***************************************************************************)
(* The splitter and its caller.                                            *)
(***************************************************************************)
SplitInit ==
    /\ key \in KeyArrays
    /\ proportions \in ProportionLists
    /\ rng \in 0..(RngMod - 1)          \* unseeded: taken from the system's entropy
    /\ seed = NoSeed
    /\ unique_keys = << >>
    /\ split_points = << >>
    /\ masks = << >>
    /\ returned = FALSE
    /\ seed_at_call = NoSeed
    /\ DatasetIdle
    /\ TrainIdle

\* np.random.seed(s)
Seed(s) ==
    /\ rng' = SeedState(s)
    /\ seed' = << s >>
    /\ UNCHANGED << key, proportions, unique_keys, split_points, masks, returned,
                    seed_at_call, dataset_vars, train_vars >>

\* Any other operation of the process that draws from the global generator.
Consume ==
    /\ rng' = RngNext(rng)
    /\ UNCHANGED << key, proportions, seed, unique_keys, split_points, masks, returned,
                    seed_at_call, dataset_vars, train_vars >>

\* A call of get_random_split(key, proportions).
CallSplit ==
    LET res == get_random_split(key, proportions, rng)
    IN  /\ unique_keys' = res.unique_keys
        /\ split_points' = res.split_points
        /\ masks' = res.masks
        /\ rng' = res.rng
        /\ returned' = TRUE
        /\ seed_at_call' = seed
        /\ key' = res.key
        /\ UNCHANGED << proportions, seed, dataset_vars, train_vars >>

SplitNext ==
    \/ \E s \in Seeds : Seed(s)
    \/ Consume
    \/ CallSplit

SpecSplit == SplitInit /\ [][SplitNext]_vars

(***************************************************************************)
(* Properties of the grouped splitter.                                     *)
(***************************************************************************)
Rows == 1..Len(key)
MasksOfRow(r) == {m \in DOMAIN masks : masks[m][r]}
MasksOfKey(k) == {m \in DOMAIN masks : \E r \in Rows : key[r] = k /\ masks[m][r]}
\* Number of distinct documents selected by each mask.
UniqueCounts ==
    [m \in DOMAIN masks |-> Cardinality({key[r] : r \in {q \in Rows : masks[m][q]}})]
EmptyMask(m) == \A r \in Rows : ~masks[m][r]

\* C1: when the proportions sum to 1, every row is true in exactly one of the
\* returned masks (the masks are pairwise disjoint and cover every row).
C1_DisjointAndExhaustive ==
    (returned /\ SumSeq(proportions) = 100) =>
        \A r \in Rows : Cardinality(MasksOfRow(r)) = 1

\* C2: rows that carry the same group key have the same membership in every
\* mask, and no group key is selected by more than one mask.
C2_GroupsNeverDivided ==
    returned =>
        /\ \A r1, r2 \in Rows :
              key[r1] = key[r2] => \A m \in DOMAIN masks : masks[m][r1] = masks[m][r2]
        /\ \A k \in Range(key) : Cardinality(MasksOfKey(k)) <= 1

\* A document of two rows selected by one mask, another document by another mask.
C2_Witness ==
    /\ returned
    /\ \E r1, r2, r3 \in Rows : \E m1, m2 \in DOMAIN masks :
          /\ r1 # r2 /\ key[r1] = key[r2] /\ key[r3] # key[r1]
          /\ m1 # m2 /\ masks[m1][r1] /\ masks[m1][r2] /\ masks[m2][r3]

\* C3 as stated: ten unique documents split by [0.7, 0.15, 0.15] give partitions
\* of exactly 7, 2 and 1 unique documents, each document in exactly one partition.
C3_TenDocsSevenTwoOne ==
    (returned /\ Cardinality(Range(key)) = 10 /\ proportions = DefaultProportions) =>
        /\ UniqueCounts = << 7, 2, 1 >>
        /\ \A k \in Range(key) : Cardinality(MasksOfKey(k)) = 1

\* C3 amended: ten unique documents split by [0.7, 0.15, 0.15] give partitions of
\* exactly 7, 1 and 2 unique documents (split points floor(7.0), floor(8.5),
\* floor(10.0)), each document in exactly one partition.
C3_TenDocsSevenOneTwo ==
    (returned /\ Cardinality(Range(key)) = 10 /\ proportions = DefaultProportions) =>
        /\ UniqueCounts = << 7, 1, 2 >>
        /\ \A k \in Range(key) : Cardinality(MasksOfKey(k)) = 1
        /\ \A r1, r2 \in Rows : key[r1] = key[r2] => MasksOfRow(r1) = MasksOfRow(r2)

C3_Witness ==
    /\ returned
    /\ Cardinality(Range(key)) = 10 /\ Len(key) > 10
    /\ proportions = DefaultProportions
    /\ split_points = << 0, 7, 8, 10 >>

\* C4: a call made under seed s returns the masks that a call with the same
\* key and proportions returns right after np.random.seed(s), whatever drew
\* from the generator in between.  (Two invocations with identical inputs and
\* seed, each after arbitrary other random-consuming operations, agree exactly
\* when each agrees with the invocation that follows the seeding directly.)
C4_ReproducibleFromSeed ==
    (returned /\ seed_at_call # NoSeed) =>
        masks = get_random_split(key, proportions, SeedState(seed_at_call[1])).masks

\* C5: one mask is returned per proportion, and when there are more proportions
\* than unique keys some mask is all-false.
C5_OneMaskPerProportion ==
    returned =>
        /\ Len(masks) = Len(proportions)
        /\ \A m \in DOMAIN masks : DOMAIN masks[m] = Rows
        /\ Len(proportions) > Cardinality(Range(key)) => \E m \in DOMAIN masks : EmptyMask(m)

C5_Witness ==
    /\ returned
    /\ Len(proportions) > Cardinality(Range(key))
    /\ \E m \in DOMAIN masks : EmptyMask(m)
    /\ \E m \in DOMAIN masks : ~EmptyMask(m)

\* C11: get_random_split never mutates the group-key array it is given: no
\* step, and so no call, changes the caller's key array.
C11_KeyNeverMutated == [][key' = key]_vars

\* A call that shuffled at least two unique keys out of their sorted order.
C11_Witness ==
    /\ returned
    /\ Len(unique_keys) >= 2
    /\ unique_keys # SortedSeq(Range(key))

\* The sum of the first i proportions, in hundredths.
PrefixSum(p, i) == SumSeq(SubSeq(p, 1, i))
\* floor(C_i * n) in exact arithmetic.
ExactPoint(p, i, n) == (PrefixSum(p, i) * n) \div 100
\* The shuffled unique keys at positions [a, b), counted from 0.
KeysAt(a, b) == {unique_keys[q] : q \in {q \in 1..Len(unique_keys) : a < q /\ q <= b}}
KeysOfMask(m) == {key[r] : r \in {q \in Rows : masks[m][q]}}

\* C12: partition i holds exactly the shuffled unique keys at positions
\* [floor(C_{i-1} n), floor(C_i n)), C_i the sum of the first i proportions and
\* n the number of unique keys; when the proportions sum to 1 the last slice
\* ends at n and every unique key is in some slice.
C12_SlicesAtFloorOfCumulative ==
    returned =>
        LET n == Len(unique_keys)
        IN  /\ \A m \in DOMAIN masks :
                  KeysOfMask(m) = KeysAt(ExactPoint(proportions, m - 1, n),
                                         ExactPoint(proportions, m, n))
            /\ SumSeq(proportions) = 100 =>
                  /\ split_points[Len(split_points)] = n
                  /\ \A k \in Range(key) : MasksOfKey(k) # {}

(***************************************************************************)
(* Properties of the dataset assembler.                                    *)
(***************************************************************************)
TableRows == 1..Len(ddf)
\* The dense integer category of a url: its rank among the table's distinct urls.
CategoryOfUrl(u) == Cardinality({v \in {ddf[i].url : i \in TableRows} : v < u})
\* (category of url, features, content_label) of input row i.
InputTriple(i) ==
    << CategoryOfUrl(ddf[i].url), [c \in 1..Len(X_cols) |-> ddf[i][X_cols[c]]],
       ddf[i].content_label >>
OutputTriple(i) == << dataset.id[i], dataset.X[i], dataset.y[i] >>

\* C6: with categorize_id the returned id, X and y are one and the same
\* permutation of the input rows: output row i is the (category of url,
\* features, content_label) of a single input row, each input row used once.
C6_RowLabelCorrespondence ==
    (ds_pc = "returned" /\ categorize_id) =>
        /\ DOMAIN dataset.id = TableRows
        /\ DOMAIN dataset.X = TableRows
        /\ DOMAIN dataset.y = TableRows
        /\ \E f \in Perms(Len(ddf)) : \A i \in TableRows : OutputTriple(i) = InputTriple(f[i])

\* The sort moved rows whose labels differ.
C6_Witness ==
    /\ ds_pc = "returned" /\ categorize_id
    /\ \E i \in TableRows : sorted_categ[i] # i /\ dataset.y[i] # ddf[i].content_label

\* C7: with categorize_id the returned rows are the stable sort of the input
\* rows by category: the id array does not decrease and rows of the same
\* document keep their original relative order.
C7_StableSortByCategory ==
    (ds_pc = "returned" /\ categorize_id) =>
        \A i, j \in TableRows :
            i < j => /\ dataset.id[i] <= dataset.id[j]
                     /\ dataset.id[i] = dataset.id[j] => sorted_categ[i] < sorted_categ[j]

\* C8: the feature matrix holds none of the identifier columns and not the
\* label column, whatever data_cols is.
C8_NoIdentifierOrLabelInFeatures ==
    ds_pc = "returned" => Range(X_cols) \cap {"url", "path", "content_label"} = {}

\* C13: get_split_dataset returns (big_X, big_y, split_slices) with as many
\* feature rows as labels, consecutive slices from 0 to the row count, slice i
\* as long as mask i, and in slice i the features and labels of exactly the
\* rows of mask i, in dataset order, each label with its own feature row; and
\* with its default arguments the call completes without error.
C13_SplitDatasetConsistent ==
    /\ (data_cols = None /\ sd_proportions = None) => sd_pc # "raised"
    /\ sd_pc = "returned" =>
          /\ Len(big_X) = Len(big_y)
          /\ Len(out_slices) = Len(masks)
          /\ Len(out_slices) > 0 => out_slices[1][1] = 0
          /\ Len(out_slices) > 0 => out_slices[Len(out_slices)][2] = Len(big_X)
          /\ \A i \in DOMAIN out_slices :
                /\ i > 1 => out_slices[i][1] = out_slices[i - 1][2]
                /\ out_slices[i][2] - out_slices[i][1] = mask_sum(masks[i])
                /\ SubSeq(big_X, out_slices[i][1] + 1, out_slices[i][2])
                      = masked(dataset.X, masks[i])
                /\ SubSeq(big_y, out_slices[i][1] + 1, out_slices[i][2])
                      = masked(dataset.y, masks[i])

(***************************************************************************)
(* Properties of the train command.                                        *)
(***************************************************************************)
RandomSteps == {"shuffle", "nested_cv", "cv_train"}
WorkSteps == {"shuffle", "load", "nested_cv", "cv_train"}

\* C9: when a fold specification has count > total, no dataset is loaded, no
\* nested cross-validation or final training is started and no file is written.
C9_InvalidFoldsStopBeforeWork ==
    (InvalidFolds(external_folds) \/ InvalidFolds(internal_folds)) =>
        /\ row_order = << >>
        /\ \A i \in DOMAIN events : events[i] \notin WorkSteps
        /\ files = {}

\* C10: every step that draws random numbers (the shuffle of the dataset, the
\* nested CV, the final cv_train) comes after the generator was seeded with
\* random_seed.
C10_RandomStepsAfterSeeding ==
    \A i \in DOMAIN events :
        events[i] \in RandomSteps => \E j \in 1..(i - 1) : events[j] = "seed"

Ran(e) == \E i \in DOMAIN events : events[i] = e
ScoreFiles == {"scores.csv", "cv.csv"}

\* C14: in train, nested cross-validation runs and the score and fold-report
\* files are written if and only if --score-files is given; cv_train runs and
\* the model file is written if and only if --model-file is given, whatever the
\* other option; nested CV and its files come before cv_train; and with neither
\* option no estimator is fitted and no file is written.  "If" is stated of a
\* train that has run to its end, "only if" of every state.
C14_ScoresAndModelIndependent ==
    /\ (Ran("nested_cv") \/ ScoreFiles \cap files # {} \/ scores # << >>) => output # None
    /\ (Ran("cv_train") \/ "model.pkl" \in files \/ trained_est # << >>) => model_file # None
    /\ tr_pc = "done" =>
          /\ output # None => (Ran("nested_cv") /\ ScoreFiles \subseteq files)
          /\ model_file # None => (Ran("cv_train") /\ "model.pkl" \in files)
    /\ \A i, j \in DOMAIN events :
          (events[i] = "cv_train" /\ events[j] \in {"nested_cv", "save_scores"}) => j < i
    /\ (Ran("cv_train") /\ output # None) => (Ran("nested_cv") /\ ScoreFiles \subseteq files)
    /\ (output = None /\ model_file = None) =>
          (files = {} /\ scores = << >> /\ trained_est = << >>)

\* A train given both options that ran both searches and wrote the three files.
C14_Witness ==
    /\ tr_pc = "done"
    /\ output # None
    /\ model_file # None
    /\ files = ScoreFiles \cup {"model.pkl"}
    /\ Ran("nested_cv")
    /\ Ran("cv_train")

\* C15: before the search, train makes every value of the hyperparameter
\* mapping a list or a frozen distribution: a list or a frozen distribution is
\* passed through unchanged, any other value v becomes the list [v], and the
\* parameter names are unchanged.
C15_ParamsNormalised ==
    Ran("grid") =>
        /\ DOMAIN param_distributions = DOMAIN computed_params
        /\ \A k \in DOMAIN computed_params :
              LET v == computed_params[k]
                  w == param_distributions[k]
              IN  /\ w.kind \in {"list", "rv_frozen"}
                  /\ v.kind \in {"list", "rv_frozen"} => w = v
                  /\ v.kind \notin {"list", "rv_frozen"} =>
                        w = [kind |-> "list", atom |-> "", items |-> << v >>]

\* A formatted mapping that held a list, a frozen distribution and a literal.
C15_Witness ==
    /\ Ran("grid")
    /\ \E k \in DOMAIN computed_params :
          computed_params[k].kind = "list" /\ Len(computed_params[k].items) = 2
    /\ \E k \in DOMAIN computed_params : computed_params[k].kind = "rv_frozen"
    /\ \E k \in DOMAIN computed_params :
          /\ computed_params[k].kind = "str"
          /\ param_distributions[k].items = << computed_params[k] >>

\* The names given by the parameter file and by the -p options.
FileNames == IF param_file = None THEN {} ELSE DOMAIN param_file[1]
OptionsNaming(k) == {i \in DOMAIN cli_params : cli_params[i][1] = k}
EffectiveNames == FileNames \cup {cli_params[i][1] : i \in DOMAIN cli_params}
LastOption(k) == CHOOSE i \in OptionsNaming(k) : \A j \in OptionsNaming(k) : j <= i
\* The value of the last -p option naming k if any, otherwise the file's value.
Effective(k) ==
    IF OptionsNaming(k) # {} THEN json_loads(cli_params[LastOption(k)][2])
    ELSE json_loads(param_file[1][k])

\* C16: the effective parameter mapping of train is the parameter file's
\* mapping overridden by the -p options in command-line order: every key has
\* the value of the last -p option naming it, otherwise the file's value; and
\* blocks_only is taken out of the mapping (true when absent) before the
\* mapping is given to get_param_grid.
C16_FileOverriddenByOptions ==
    Ran("params") =>
        /\ DOMAIN params = EffectiveNames \ {"blocks_only"}
        /\ \A k \in DOMAIN params : params[k] = Effective(k)
        /\ blocks_only = IF "blocks_only" \in EffectiveNames
                         THEN Effective("blocks_only") ELSE PyTrue
        /\ Ran("grid") =>
              /\ "blocks_only" \notin DOMAIN computed_params
              /\ \A k \in DOMAIN params : computed_params[k] = params[k]

\* A file naming C and blocks_only, and two -p options naming C with different
\* values: the second option's value is used.
C16_Witness ==
    /\ Ran("grid")
    /\ param_file # None
    /\ {"C", "blocks_only"} \subseteq FileNames
    /\ Len(cli_params) = 2
    /\ cli_params[1][1] = "C"
    /\ cli_params[2][1] = "C"
    /\ json_loads(cli_params[1][2]) # json_loads(cli_params[2][2])
    /\ params["C"] = json_loads(cli_params[2][2])
    /\ params["C"] # json_loads(param_file[1]["C"])
    /\ blocks_only = Scalar("bool", "False")

====
